---- MODULE Spec2Model ----
(***************************************************************************)
(* Conversational session manager of the Bafoka voice banking assistant:   *)
(* ConversationService (app/services/conversation_service.py), the status  *)
(* computation of NLUService.analyze_text (app/services/nlu_service.py)    *)
(* and the routes of app/routes/voice.py that drive them.                  *)
(*                                                                         *)
(* Time is counted in minutes.  A Python dict is a function whose domain   *)
(* is the set of its keys; a Python list is a sequence; Python None and a  *)
(* missing file are the record None.                                       *)
(***************************************************************************)
EXTENDS Integers, Sequences, FiniteSets, TLC

VARIABLES
    now,        \* datetime.now(), in minutes
    sessions,   \* ConversationService.sessions: user_id -> session dict or None
    files,      \* data/sessions/<user_id>.json: user_id -> file content or None
    inflight,   \* POST /voice/analyze requests suspended at the await of line 103
    disk,       \* condition of the data/sessions directory
    settings,   \* Settings(), read once from the environment at start
    last        \* the operation that ran last, with what it returned

vars == <<now, sessions, files, inflight, disk, settings, last>>

----------------------------------------------------------------------------
(* Bounds of the model *)

MaxTicks == 1       \* how many timeouts the clock may run past
MaxHistory == 2     \* turns recorded in one session
MaxRequired == 2    \* names in a list of required parameters

(* Program constant: timedelta(minutes=30) *)
session_timeout == 30

(* Settings.session_timeout_minutes when the environment does not set it *)
default_session_timeout_minutes == 30

MaxNow == MaxTicks * (session_timeout + 1)
TickSteps == {session_timeout, session_timeout + 1}

Users == {"u1"}
Requests == {"r1", "r2"}

None == [none |-> TRUE]
EmptyDict == [k \in {} |-> None]

(* The values of parameters: Python str, int, bool, list and dict, each     *)
(* under the name of its type, beside None.                                  *)
PyStr(s) == [str |-> s]
PyInt(n) == [int |-> n]
PyBool(b) == [bool |-> b]
PyList(l) == [list |-> l]
PyDict(d) == [dict |-> d]

(* A Python float with one decimal, held as its number of tenths, and the    *)
(* floats that are not numbers of tenths: float("inf"), float("nan").        *)
PyFloat(tenths) == [float_tenths |-> tenths]
PyFloatSpecial(name) == [float_special |-> name]

(* A Python str held as the sequence of its characters *)
PyChars(chars) == [chars |-> chars]

(* What a block of statements yields is a value, [value |-> v], or an        *)
(* exception, [raise |-> type]; what a function yields is what it returns,   *)
(* [raised |-> FALSE, ret |-> v], or the exception that leaves it,           *)
(* [raised |-> TRUE, exception |-> type].  Every exception type named in     *)
(* this module is a subclass of Exception.                                   *)
Raise(type, message) == [raise |-> type, message |-> message]
Value(v) == [value |-> v]
Raises(block) == "raise" \in DOMAIN block

Return(v) == [raised |-> FALSE, ret |-> v]
Propagate(block) == [raised |-> TRUE, exception |-> block.raise]

(* dict.get(key, default) *)
Get(d, k, default) == IF k \in DOMAIN d THEN d[k] ELSE default

(* dict.update(e): the keys of e overwrite those of d *)
Update(d, e) == [k \in (DOMAIN d) \cup (DOMAIN e) |-> IF k \in DOMAIN e THEN e[k] ELSE d[k]]

(* datetime.isoformat() and datetime.fromisoformat() *)
isoformat(t) == [iso |-> t]
fromisoformat(s) == s.iso

(* json.dump that writes the session without its history *)
json_dump_without_history(session) ==
    [json |-> [session EXCEPT !.conversation_history = << >>]]

(* json.dump(session, f) into a file opened for writing, and json.load *)
json_dump(session) == [json |-> session]
json_load(f) == f.json

(* A file whose text is not JSON: empty, or cut short.  json.load raises on  *)
(* it.                                                                       *)
Truncated == [truncated |-> TRUE]
parses(f) == "json" \in DOMAIN f

(* Conditions of the directory: "readonly" makes open(.., "w") and unlink    *)
(* raise; "full" lets open(.., "w") empty the file and makes the write       *)
(* raise.                                                                    *)
DiskConditions == {"ok", "readonly", "full"}

----------------------------------------------------------------------------
(* ConversationService *)

(* is_session_expired with the comparison turned into >= *)
is_session_expired_at_timeout(session, t) ==
    t - fromisoformat(session.last_activity) >= session_timeout

is_session_expired(session, t) ==
    t - fromisoformat(session.last_activity) > session_timeout

(* create_new_session whose created_at is taken after last_activity *)
create_new_session_created_later(u, t) ==
    [user_id |-> u,
     created_at |-> isoformat(t + 1),
     last_activity |-> isoformat(t),
     data |-> EmptyDict,
     conversation_history |-> << >>]

create_new_session(u, t) ==
    [user_id |-> u,
     created_at |-> isoformat(t),
     last_activity |-> isoformat(t),
     data |-> EmptyDict,
     conversation_history |-> << >>]

(* save_session_to_file that leaves a file that exists as it is *)
save_session_to_file_keeping_existing(F, u, session) ==
    IF F[u] = None /\ disk = "ok" THEN [F EXCEPT ![u] = json_dump(session)] ELSE F

(* The write is inside try/except: a failure is logged and the file is left  *)
(* as the failed call made it.                                               *)
save_session_to_file(F, u, session) ==
    CASE disk = "ok" -> [F EXCEPT ![u] = json_dump(session)]
      [] disk = "readonly" -> F
      [] disk = "full" -> [F EXCEPT ![u] = Truncated]

(* clear_session that forgets the session and leaves its file *)
clear_session_keeping_file(S, F, u) ==
    [sessions |-> [S EXCEPT ![u] = None], files |-> F, ret |-> None, raised |-> FALSE]

(* clear_session that empties the whole store *)
clear_session_of_every_user(S, F, u) ==
    [sessions |-> [v \in DOMAIN S |-> None], files |-> [v \in DOMAIN F |-> None],
     ret |-> None, raised |-> FALSE]

(* Each operation below yields the store after it, what it returns and      *)
(* whether it raised.                                                        *)
clear_session(S, F, u) ==
    IF F[u] # None /\ disk = "readonly"
    THEN [sessions |-> [S EXCEPT ![u] = None],
          files |-> F,
          ret |-> None,
          raised |-> TRUE]
    ELSE [sessions |-> [S EXCEPT ![u] = None],
          files |-> [F EXCEPT ![u] = None],
          ret |-> None,
          raised |-> FALSE]

(* json.load and session["last_activity"] are inside try/except: a file     *)
(* that does not parse or has no last_activity is answered with None.        *)
load_session_from_file(S, F, u, t) ==
    IF /\ F[u] # None
       /\ parses(F[u])
       /\ "last_activity" \in DOMAIN json_load(F[u])
       /\ ~is_session_expired(json_load(F[u]), t)
    THEN [sessions |-> [S EXCEPT ![u] = json_load(F[u])],
          files |-> F,
          ret |-> json_load(F[u]),
          raised |-> FALSE]
    ELSE [sessions |-> S, files |-> F, ret |-> None, raised |-> FALSE]

get_session(S, F, u, t) ==
    IF S[u] # None
    THEN IF is_session_expired(S[u], t)
         THEN clear_session(S, F, u)
         ELSE [sessions |-> S, files |-> F, ret |-> S[u], raised |-> FALSE]
    ELSE load_session_from_file(S, F, u, t)

(* A session with every field the service reads *)
WellFormed(session) ==
    {"user_id", "created_at", "last_activity", "data", "conversation_history"}
        \subseteq DOMAIN session

(* create_or_update_session that keeps only the entry of the turn in the   *)
(* history                                                                   *)
create_or_update_session_rewriting_history(S, F, u, data, t) ==
    LET g == get_session(S, F, u, t)
        session == IF g.ret # None THEN g.ret ELSE create_new_session(u, t)
        updated == [session EXCEPT
                        !.last_activity = isoformat(t),
                        !.data = Update(@, data),
                        !.conversation_history =
                            <<[timestamp |-> isoformat(t), data |-> data]>>]
    IN  IF g.raised \/ ~WellFormed(session)
        THEN [sessions |-> g.sessions, files |-> g.files, ret |-> None, raised |-> TRUE]
        ELSE [sessions |-> [g.sessions EXCEPT ![u] = updated],
              files |-> save_session_to_file(g.files, u, updated),
              ret |-> updated,
              raised |-> FALSE]

(* create_or_update_session letting the failure of the write reach its     *)
(* caller                                                                    *)
create_or_update_session_raising_on_failed_write(S, F, u, data, t) ==
    LET g == get_session(S, F, u, t)
        session == IF g.ret # None THEN g.ret ELSE create_new_session(u, t)
        updated == [session EXCEPT
                        !.last_activity = isoformat(t),
                        !.data = Update(@, data),
                        !.conversation_history =
                            Append(@, [timestamp |-> isoformat(t), data |-> data])]
    IN  IF g.raised \/ ~WellFormed(session)
        THEN [sessions |-> g.sessions, files |-> g.files, ret |-> None, raised |-> TRUE]
        ELSE [sessions |-> [g.sessions EXCEPT ![u] = updated],
              files |-> save_session_to_file(g.files, u, updated),
              ret |-> updated,
              raised |-> disk # "ok"]

(* The session dict is updated in place, line after line: when a line       *)
(* raises KeyError the lines before it have already changed the dict that   *)
(* self.sessions holds.                                                      *)
create_or_update_session(S, F, u, data, t) ==
    LET g == get_session(S, F, u, t)
        session == IF g.ret # None THEN g.ret ELSE create_new_session(u, t)
        stamped == [session EXCEPT !.last_activity = isoformat(t)]
    IN  IF g.raised
        THEN [sessions |-> g.sessions, files |-> g.files, ret |-> None, raised |-> TRUE]
        ELSE IF "data" \notin DOMAIN session
        THEN [sessions |-> [g.sessions EXCEPT ![u] = stamped],
              files |-> g.files, ret |-> None, raised |-> TRUE]
        ELSE IF "conversation_history" \notin DOMAIN session
        THEN [sessions |-> [g.sessions EXCEPT ![u] =
                                [stamped EXCEPT !.data = Update(@, data)]],
              files |-> g.files, ret |-> None, raised |-> TRUE]
        ELSE LET updated == [stamped EXCEPT
                                !.data = Update(@, data),
                                !.conversation_history =
                                    Append(@, [timestamp |-> isoformat(t), data |-> data])]
             IN  [sessions |-> [g.sessions EXCEPT ![u] = updated],
                  files |-> save_session_to_file(g.files, u, updated),
                  ret |-> updated,
                  raised |-> FALSE]

(* add_pending_info that puts the missing list of the turn behind the one  *)
(* already stored                                                            *)
add_pending_info_appending_missing(S, F, u, intent, collected_params, missing_params, t) ==
    LET g == get_session(S, F, u, t)
        stored == IF g.ret # None /\ "data" \in DOMAIN g.ret
                     /\ "pending_info" \in DOMAIN g.ret.data
                  THEN g.ret.data["pending_info"].missing_params
                  ELSE << >>
    IN  create_or_update_session(S, F, u,
            "pending_info" :> [intent |-> intent,
                               collected_params |-> collected_params,
                               missing_params |-> stored \o missing_params,
                               timestamp |-> isoformat(t)],
            t)

add_pending_info(S, F, u, intent, collected_params, missing_params, t) ==
    create_or_update_session(S, F, u,
        "pending_info" :> [intent |-> intent,
                           collected_params |-> collected_params,
                           missing_params |-> missing_params,
                           timestamp |-> isoformat(t)],
        t)

(* session.get("data", {}) *)
data_of(session) == IF "data" \in DOMAIN session THEN session.data ELSE EmptyDict

(* get_pending_info that stamps last_activity on the session it reads *)
get_pending_info_touching(S, F, u, t) ==
    LET g == get_session(S, F, u, t)
    IN  [sessions |-> IF g.ret # None
                      THEN [g.sessions EXCEPT ![u] =
                               [g.ret EXCEPT !.last_activity = isoformat(t)]]
                      ELSE g.sessions,
         files |-> g.files,
         ret |-> IF g.ret # None /\ "pending_info" \in DOMAIN data_of(g.ret)
                 THEN g.ret.data["pending_info"]
                 ELSE None,
         raised |-> g.raised]

get_pending_info(S, F, u, t) ==
    LET g == get_session(S, F, u, t)
    IN  [sessions |-> g.sessions,
         files |-> g.files,
         ret |-> IF g.ret # None /\ "pending_info" \in DOMAIN data_of(g.ret)
                 THEN g.ret.data["pending_info"]
                 ELSE None,
         raised |-> g.raised]

(* clear_pending_info that deletes the key in memory and writes no file *)
clear_pending_info_memory_only(S, F, u, t) ==
    LET g == get_session(S, F, u, t)
    IN  IF g.ret # None /\ "pending_info" \in DOMAIN data_of(g.ret)
        THEN [sessions |-> [g.sessions EXCEPT ![u] =
                               [g.ret EXCEPT !.data =
                                   [k \in (DOMAIN @) \ {"pending_info"} |-> @[k]]]],
              files |-> g.files,
              ret |-> None,
              raised |-> FALSE]
        ELSE [sessions |-> g.sessions, files |-> g.files, ret |-> None,
              raised |-> g.raised]

(* clear_pending_info that stamps last_activity on the session it clears *)
clear_pending_info_touching(S, F, u, t) ==
    LET g == get_session(S, F, u, t)
    IN  IF g.ret # None /\ "pending_info" \in DOMAIN data_of(g.ret)
        THEN LET cleared == [g.ret EXCEPT
                                !.data = [k \in (DOMAIN @) \ {"pending_info"} |-> @[k]],
                                !.last_activity = isoformat(t)]
             IN  [sessions |-> [g.sessions EXCEPT ![u] = cleared],
                  files |-> save_session_to_file(g.files, u, cleared),
                  ret |-> None,
                  raised |-> FALSE]
        ELSE [sessions |-> g.sessions, files |-> g.files, ret |-> None,
              raised |-> g.raised]

clear_pending_info(S, F, u, t) ==
    LET g == get_session(S, F, u, t)
    IN  IF g.ret # None /\ "pending_info" \in DOMAIN data_of(g.ret)
        THEN LET cleared == [g.ret EXCEPT
                                !.data = [k \in (DOMAIN @) \ {"pending_info"} |-> @[k]]]
             IN  [sessions |-> [g.sessions EXCEPT ![u] = cleared],
                  files |-> save_session_to_file(g.files, u, cleared),
                  ret |-> None,
                  raised |-> FALSE]
        ELSE [sessions |-> g.sessions, files |-> g.files, ret |-> None,
              raised |-> g.raised]

----------------------------------------------------------------------------
(* Validator *)

(* Truthiness that takes the empty string alone for falsy *)
Falsy_empty_string_only(v) == v = PyStr("")

(* not v: None, False, zero, the empty string and the empty collections are *)
(* falsy.                                                                    *)
Falsy(v) == v \in {None, PyBool(FALSE), PyInt(0), PyStr(""), PyList(<< >>), PyDict(EmptyDict)}

check_missing_params(required, provided) ==
    SelectSeq(required, LAMBDA param : param \notin DOMAIN provided \/ Falsy(provided[param]))

Digits == {"0", "1", "2", "3", "4", "5", "6", "7", "8", "9"}

DigitValue(c) ==
    CASE c = "0" -> 0 [] c = "1" -> 1 [] c = "2" -> 2 [] c = "3" -> 3 [] c = "4" -> 4
      [] c = "5" -> 5 [] c = "6" -> 6 [] c = "7" -> 7 [] c = "8" -> 8 [] c = "9" -> 9

(* The number written by a sequence of digits *)
RECURSIVE DecimalValue(_)
DecimalValue(chars) ==
    IF chars = << >> THEN 0
    ELSE 10 * DecimalValue(SubSeq(chars, 1, Len(chars) - 1)) + DigitValue(chars[Len(chars)])

(* str.strip() of blanks *)
RECURSIVE strip(_)
strip(chars) ==
    IF chars # << >> /\ Head(chars) = " " THEN strip(Tail(chars))
    ELSE IF chars # << >> /\ chars[Len(chars)] = " "
    THEN strip(SubSeq(chars, 1, Len(chars) - 1))
    ELSE chars

(* int(str): blanks around are dropped, one sign is allowed, and the rest    *)
(* must be one or more digits; anything else is a ValueError.                *)
int_of_str(chars) ==
    LET stripped == strip(chars)
        signed == stripped # << >> /\ Head(stripped) \in {"+", "-"}
        digits == IF signed THEN Tail(stripped) ELSE stripped
    IN  IF digits = << >> \/ \E i \in 1..Len(digits) : digits[i] \notin Digits
        THEN Raise("ValueError", "invalid literal for int() with base 10")
        ELSE IF signed /\ Head(stripped) = "-"
        THEN Value(0 - DecimalValue(digits))
        ELSE Value(DecimalValue(digits))

(* int(float): the fraction is dropped, towards zero; int(nan) is a          *)
(* ValueError and int(inf) an OverflowError.                                 *)
int_of_float(age) ==
    IF "float_special" \in DOMAIN age
    THEN IF age.float_special = "nan"
         THEN Raise("ValueError", "cannot convert float NaN to integer")
         ELSE Raise("OverflowError", "cannot convert float infinity to integer")
    ELSE IF age.float_tenths >= 0
    THEN Value(age.float_tenths \div 10)
    ELSE Value(0 - ((0 - age.float_tenths) \div 10))

(* int(age) *)
int_of(age) ==
    CASE "int" \in DOMAIN age -> Value(age.int)
      [] "bool" \in DOMAIN age -> Value(IF age.bool THEN 1 ELSE 0)
      [] "chars" \in DOMAIN age -> int_of_str(age.chars)
      [] "float_tenths" \in DOMAIN age \/ "float_special" \in DOMAIN age -> int_of_float(age)
      [] OTHER -> Raise("TypeError", "int() argument must be a string or a real number")

(* validate_age: the except clause names ValueError and TypeError. *)
validate_age(age) ==
    LET block == int_of(age)
    IN  IF ~Raises(block)
        THEN Return(18 <= block.value /\ block.value <= 120)
        ELSE IF block.raise \in {"ValueError", "TypeError"}
        THEN Return(FALSE)
        ELSE Propagate(block)

----------------------------------------------------------------------------
(* NLUService *)

intent_mapping(intent) ==
    CASE intent = "transfer" -> "faire_virement"
      [] intent = "balance" -> "consulter_solde"
      [] intent = "payment" -> "payer_facture"
      [] intent = "add_beneficiary" -> "ajouter_beneficiaire"
      [] intent = "account_creation" -> "creer_compte"
      [] OTHER -> intent

(* required_params of the actions listed in the system prompt, under the     *)
(* names the intents carry once intent_mapping has been applied.             *)
required_params(intent) ==
    CASE intent = "faire_virement" -> <<"senderPhone", "recipientPhone", "amount">>
      [] intent = "get_balance" -> <<"phoneNumber">>
      [] intent = "recipient_info" -> <<"senderPhone", "recipientPhone">>
      [] intent = "creer_compte" ->
            <<"phoneNumber", "fullName", "age", "sex", "groupement_id">>
      [] OTHER -> << >>

(* is_complete computed from the missing list alone *)
is_complete_of_missing_only(missing_params, validation_errors) ==
    Len(missing_params) = 0

(* execution_ready computed without the security alert *)
execution_ready_of_ignoring_alert(is_complete, security_alert) ==
    is_complete

(* The status flags computed from the parsed reply *)
is_complete_of(missing_params, validation_errors) ==
    Len(missing_params) = 0 /\ Len(validation_errors) = 0

execution_ready_of(is_complete, security_alert) ==
    is_complete /\ ~security_alert

(* analyze_text on the reply of the Groq call.  reply.ok is FALSE when the   *)
(* call or json.loads raises; reply.body is the parsed JSON object.  Only    *)
(* the fields the session logic and the status flags read are kept.          *)
analyze_text(reply) ==
    IF ~reply.ok
    THEN [success |-> FALSE, error |-> "error"]
    ELSE LET result == IF "intent" \in DOMAIN reply.body
                       THEN Update(reply.body,
                                   "intent" :> intent_mapping(reply.body["intent"]))
                       ELSE reply.body
             validation == Get(result, "validation", EmptyDict)
             missing_params == Get(validation, "missing_params", << >>)
             validation_errors == Get(validation, "validation_errors", << >>)
             is_complete == is_complete_of(missing_params, validation_errors)
             execution_ready ==
                 execution_ready_of(is_complete, Get(result, "security_alert", FALSE))
         IN  [success |-> TRUE,
              intent |-> Get(result, "intent", "unknown"),
              parameters |-> Get(result, "parameters", EmptyDict),
              missing_parameters |-> missing_params,
              security_alert |-> Get(result, "security_alert", FALSE),
              validation_errors |-> validation_errors,
              is_complete |-> is_complete,
              execution_ready |-> execution_ready,
              validation |-> validation]

----------------------------------------------------------------------------
(* JSONExtractor *)

(* extract_from_pipeline on the result of a pipeline.  Only the fields that  *)
(* are computed from the NLU analysis are kept.  not validation.get(         *)
(* "missing_params") is true for an absent and for an empty list.            *)
extract_from_pipeline(result_json) ==
    LET pipeline_steps == Get(result_json, "pipeline_steps", EmptyDict)
        nlu == Get(pipeline_steps, "nlu_analysis", EmptyDict)
        validation == Get(nlu, "validation", EmptyDict)
    IN  [intent |-> Get(nlu, "intent", None),
         parameters |-> Get(nlu, "parameters", EmptyDict),
         missing_parameters |-> Get(validation, "missing_params", << >>),
         security_alert |-> Get(nlu, "security_alert", FALSE),
         validation_errors |-> Get(validation, "validation_errors", << >>),
         is_complete |-> IF "missing_params" \in DOMAIN validation
                         THEN Len(validation["missing_params"]) = 0
                         ELSE TRUE,
         success |-> Get(result_json, "success", FALSE) /\ Get(nlu, "success", FALSE),
         execution_ready |-> Get(result_json, "execution_ready", FALSE)]

----------------------------------------------------------------------------
(* BlockchainService and SpeechService *)

(* str.upper() on the method names the requests carry *)
upper(method) ==
    CASE method = "post" -> "POST"
      [] method = "get" -> "GET"
      [] method = "delete" -> "DELETE"
      [] OTHER -> method

(* The statements under the try of execute_action.  outcome tells what the   *)
(* HTTP call does: whether a response arrives, its status code, whether its  *)
(* body is JSON.                                                             *)
execute_action_try(method, outcome) ==
    IF upper(method) \notin {"POST", "GET"}
    THEN Raise("ValueError", "Méthode HTTP non supportée")
    ELSE IF ~outcome.responds
    THEN Raise("ConnectError", "")
    ELSE IF outcome.status_code >= 400
    THEN Raise("HTTPStatusError", "")
    ELSE IF ~outcome.is_json
    THEN Raise("JSONDecodeError", "Expecting value")
    ELSE Value([success |-> TRUE, data |-> "data", status_code |-> outcome.status_code])

(* execute_action whose except clauses catch HTTPStatusError alone *)
execute_action_catching_http_only(method, outcome) ==
    LET block == execute_action_try(method, outcome)
    IN  IF ~Raises(block)
        THEN Return(block.value)
        ELSE IF block.raise = "HTTPStatusError"
        THEN Return([success |-> FALSE, error |-> "Erreur API Bafoka",
                     status_code |-> outcome.status_code, details |-> "text"])
        ELSE Propagate(block)

execute_action(method, outcome) ==
    LET block == execute_action_try(method, outcome)
    IN  IF ~Raises(block)
        THEN Return(block.value)
        ELSE IF block.raise = "HTTPStatusError"
        THEN Return([success |-> FALSE, error |-> "Erreur API Bafoka",
                     status_code |-> outcome.status_code, details |-> "text"])
        ELSE Return([success |-> FALSE, error |-> block.message])

(* str(HTTPException(status_code, detail)) *)
str_of_HTTPException(status_code, detail) == <<status_code, ": ", detail>>

(* The body of the try of execute_blockchain_action: the method is always    *)
(* "POST"; HTTPException(400) is raised inside the try.                      *)
execute_blockchain_action_try(outcome) ==
    LET result == execute_action("POST", outcome)
    IN  IF result.raised
        THEN Raise(result.exception, "")
        ELSE IF ~result.ret.success
        THEN Raise("HTTPException", str_of_HTTPException(400, result.ret.error))
        ELSE Value(result.ret)

(* POST /voice/blockchain/execute: HTTPException is a subclass of Exception, *)
(* so the except Exception clause of the route catches the HTTPException     *)
(* raised in its own try and raises HTTPException(500, str(e)) in its place. *)
execute_blockchain_action(outcome) ==
    LET block == execute_blockchain_action_try(outcome)
    IN  IF Raises(block)
        THEN [status |-> 500, detail |-> block.message]
        ELSE [status |-> 200, body |-> block.value]

(* The outcomes of the HTTP call *)
HttpOutcomes ==
    { [responds |-> FALSE, status_code |-> 0, is_json |-> FALSE] }
    \cup { [responds |-> TRUE, status_code |-> c, is_json |-> j] :
             c \in {200, 201, 400, 404, 500}, j \in BOOLEAN }

HttpMethods == {"POST", "GET", "post", "get", "DELETE", "delete", "PUT"}

(* _load_model: whisper.load_model under a try whose except clause logs and *)
(* raises again.  loads tells whether whisper.load_model returns a model.    *)
load_model(model_size, loads) ==
    IF loads THEN Value([whisper |-> model_size]) ELSE Raise("RuntimeError", "load")

(* SpeechService() whose _load_model logs the failure and does not raise *)
SpeechService_init_swallowing(model_size, loads) ==
    LET block == load_model(model_size, loads)
    IN  Return([model |-> IF Raises(block) THEN None ELSE block.value,
                model_size |-> model_size])

(* SpeechService(): the service with its fields, or the exception of         *)
(* _load_model.                                                              *)
SpeechService_init(model_size, loads) ==
    LET block == load_model(model_size, loads)
    IN  IF Raises(block)
        THEN Propagate(block)
        ELSE Return([model |-> block.value, model_size |-> model_size])

get_model_info(service) ==
    [model_size |-> service.model_size, loaded |-> service.model # None]

(* The statements under the try of transcribe_audio.  audio tells what the  *)
(* path holds, whisper what model.transcribe does.                           *)
transcribe_audio_try(service, audio, whisper) ==
    IF audio = "absent"
    THEN Raise("FileNotFoundError", "Fichier audio introuvable")
    ELSE IF audio = "undecodable"
    THEN Raise("NoBackendError", "")
    ELSE IF service.model = None
    THEN Raise("AttributeError", "'NoneType' object has no attribute 'transcribe'")
    ELSE IF whisper = "raises"
    THEN Raise("RuntimeError", "transcribe")
    ELSE IF whisper = "no_text"
    THEN Raise("KeyError", "text")
    ELSE Value([success |-> TRUE, text |-> "texte", raw_text |-> " texte ",
                language |-> "fr", confidence |-> 1])

transcribe_audio(service, audio, whisper) ==
    LET block == transcribe_audio_try(service, audio, whisper)
    IN  IF Raises(block)
        THEN Return([success |-> FALSE, error |-> block.message])
        ELSE Return(block.value)

AudioFiles == {"absent", "undecodable", "ok"}
WhisperOutcomes == {"raises", "no_text", "ok"}
ModelSizes == {"large-v3", "base"}

----------------------------------------------------------------------------
(* Replies of the NLU oracle that the turns draw from *)

recipientOnly == "recipientPhone" :> PyStr("658835899")
senderOnly == "senderPhone" :> PyStr("653112616")
senderAmount == ("senderPhone" :> PyStr("653112616")) @@ ("amount" :> PyStr("5000"))
phoneOnly == "phoneNumber" :> PyStr("653112616")

Validation(complete, missing_params, validation_errors) ==
    ("complete" :> complete) @@ ("missing_params" :> missing_params)
        @@ ("validation_errors" :> validation_errors)

Reply(intent, parameters, validation, security_alert) ==
    [ok |-> TRUE,
     body |-> ("intent" :> intent) @@ ("parameters" :> parameters)
                @@ ("validation" :> validation)
                @@ ("security_alert" :> security_alert)]

(* intent, parameters and missing_params as one reply names them; the oracle *)
(* is free to report a missing list that disagrees with its parameters.      *)
Cores ==
    { [intent |-> "transfer", parameters |-> recipientOnly,
       missing |-> <<"senderPhone", "amount">>],
      [intent |-> "transfer", parameters |-> senderAmount, missing |-> << >>],
      [intent |-> "get_balance", parameters |-> phoneOnly, missing |-> << >>],
      [intent |-> "unknown", parameters |-> EmptyDict, missing |-> << >>] }

Unparseable == [ok |-> FALSE]

(* a reply that carries neither validation nor security_alert *)
Bare(intent, parameters) ==
    [ok |-> TRUE, body |-> ("intent" :> intent) @@ ("parameters" :> parameters)]

(* The replies of the turns: every core with validation.complete either way, *)
(* and one reply each with a validation error, with a security alert, with   *)
(* no validation at all, and one that cannot be parsed.                      *)
Replies ==
    { Reply(c.intent, c.parameters, Validation(complete, c.missing, << >>), FALSE) :
        c \in Cores, complete \in BOOLEAN }
    \cup { Reply("transfer", senderAmount,
                 Validation(FALSE, << >>, <<"invalid amount">>), FALSE),
           Reply("transfer", senderAmount, Validation(TRUE, << >>, << >>), TRUE),
           Bare("unknown", EmptyDict),
           Unparseable }

(* The replies of two concurrent turns that each bring one parameter of a    *)
(* transfer.                                                                 *)
ConcurrentReplies ==
    { Reply("transfer", recipientOnly,
            Validation(FALSE, <<"senderPhone", "amount">>, << >>), FALSE),
      Reply("transfer", senderOnly,
            Validation(FALSE, <<"recipientPhone", "amount">>, << >>), FALSE) }

----------------------------------------------------------------------------
(* Routes of app/routes/voice.py *)

(* session.get("data") if session else None *)
context_of(session) ==
    IF session # None THEN Get(session, "data", None) ELSE None

(* a prompt that never carries the context *)
build_user_prompt_without_context(context) == None

(* NLUService._build_user_prompt: what the prompt of the call carries of the *)
(* context besides the text of the request, None when nothing is appended.   *)
(* An empty context is falsy; a pending_info dict always has its four keys   *)
(* and is truthy.                                                            *)
build_user_prompt(context) ==
    IF context # None /\ DOMAIN context # {} /\ "pending_info" \in DOMAIN context
    THEN context["pending_info"]
    ELSE None

(* the route dropping the session of a turn whose analysis failed *)
analyze_route_clearing_on_failure(S, F, u, reply, t) ==
    LET result == analyze_text(reply)
    IN  IF ~result.success
        THEN LET c == clear_session(S, F, u)
             IN  [sessions |-> c.sessions, files |-> c.files, status |-> 500,
                  result |-> result]
        ELSE LET validation == Get(result, "validation", EmptyDict)
             IN  IF ~Get(validation, "complete", FALSE)
                 THEN LET a == add_pending_info(S, F, u,
                                   result.intent,
                                   Get(result, "parameters", EmptyDict),
                                   Get(validation, "missing_params", << >>),
                                   t)
                      IN  [sessions |-> a.sessions, files |-> a.files,
                           status |-> IF a.raised THEN 500 ELSE 200,
                           result |-> result]
                 ELSE [sessions |-> S, files |-> F, status |-> 200, result |-> result]

(* analyze_text (the route) from the reply of the NLU call on: the store     *)
(* after it, the HTTP status and the analysis.  An exception raised under    *)
(* the handler's try is answered with status 500.                            *)
analyze_route(S, F, u, reply, t) ==
    LET result == analyze_text(reply)
    IN  IF ~result.success
        THEN [sessions |-> S, files |-> F, status |-> 500, result |-> result]
        ELSE LET validation == Get(result, "validation", EmptyDict)
             IN  IF ~Get(validation, "complete", FALSE)
                 THEN LET a == add_pending_info(S, F, u,
                                   result.intent,
                                   Get(result, "parameters", EmptyDict),
                                   Get(validation, "missing_params", << >>),
                                   t)
                      IN  [sessions |-> a.sessions, files |-> a.files,
                           status |-> IF a.raised THEN 500 ELSE 200,
                           result |-> result]
                 ELSE [sessions |-> S, files |-> F, status |-> 200, result |-> result]

(* The history of a session stays within the bound of the model. *)
WithinHistory(S, u) ==
    (S[u] # None /\ "conversation_history" \in DOMAIN S[u])
    => Len(S[u].conversation_history) <= MaxHistory

----------------------------------------------------------------------------
(* State machine *)

Init ==
    /\ now = 0
    /\ sessions = [u \in Users |-> None]
    /\ files = [u \in Users |-> None]
    /\ inflight = [r \in Requests |-> None]
    /\ disk = "ok"
    /\ settings = [session_timeout_minutes |-> default_session_timeout_minutes]
    /\ last = [op |-> "init"]

(* Time passes. *)
Tick ==
    /\ \E d \in TickSteps :
          /\ now + d <= MaxNow
          /\ now' = now + d
    /\ last' = [op |-> "tick"]
    /\ UNCHANGED <<sessions, files, inflight, disk, settings>>

(* POST /voice/analyze.  nlu_service.analyze_text calls the Groq client     *)
(* synchronously and awaits nothing, so the handler runs from the read of   *)
(* the session to its response without yielding to another request.  prompt *)
(* is what the prompt of the NLU call carried of the context; stale tells   *)
(* that the turn found a session in memory that its file did not hold.      *)
Analyze(u, reply) ==
    /\ LET g == get_session(sessions, files, u, now)
           a == IF g.raised
                THEN [sessions |-> g.sessions, files |-> g.files,
                      status |-> 500, result |-> None]
                ELSE analyze_route(g.sessions, g.files, u, reply, now)
       IN  /\ WithinHistory(a.sessions, u)
           /\ sessions' = a.sessions
           /\ files' = a.files
           /\ last' = [op |-> "analyze", user |-> u,
                       status |-> a.status, result |-> a.result,
                       prompt |-> IF g.raised THEN None
                                  ELSE build_user_prompt(context_of(g.ret)),
                       stale |-> (sessions[u] # None
                                    /\ files[u] # json_dump(sessions[u]))]
    /\ UNCHANGED <<now, inflight, disk, settings>>

(* GET /voice/session/{user_id}; loaded tells that the session returned    *)
(* was read from its file.                                                   *)
GetUserSession(u) ==
    /\ LET g == get_session(sessions, files, u, now)
       IN  /\ sessions' = g.sessions
           /\ files' = g.files
           /\ last' = [op |-> "get_session", user |-> u, ret |-> g.ret,
                       raised |-> g.raised,
                       loaded |-> (sessions[u] = None /\ g.ret # None)]
    /\ UNCHANGED <<now, inflight, disk, settings>>

(* ConversationService.get_pending_info *)
GetPendingInfo(u) ==
    /\ LET g == get_pending_info(sessions, files, u, now)
       IN  /\ sessions' = g.sessions
           /\ files' = g.files
           /\ last' = [op |-> "get_pending_info", user |-> u, ret |-> g.ret,
                       raised |-> g.raised]
    /\ UNCHANGED <<now, inflight, disk, settings>>

(* ConversationService.clear_pending_info; removed tells that there was a   *)
(* pending intent to delete.                                                 *)
ClearPendingInfo(u) ==
    /\ LET g == clear_pending_info(sessions, files, u, now)
       IN  /\ sessions' = g.sessions
           /\ files' = g.files
           /\ last' = [op |-> "clear_pending_info", user |-> u, raised |-> g.raised,
                       removed |-> (get_pending_info(sessions, files, u, now).ret # None)]
    /\ UNCHANGED <<now, inflight, disk, settings>>

(* DELETE /voice/session/{user_id}; removed tells that there was a session  *)
(* or a file to delete.                                                      *)
ClearUserSession(u) ==
    /\ LET g == clear_session(sessions, files, u)
       IN  /\ sessions' = g.sessions
           /\ files' = g.files
           /\ last' = [op |-> "clear_session", user |-> u, raised |-> g.raised,
                       removed |-> (sessions[u] # None \/ files[u] # None)]
    /\ UNCHANGED <<now, inflight, disk, settings>>

(* The process stops and starts again: ConversationService() is built anew  *)
(* with an empty sessions dict; the files of data/sessions stay.             *)
Restart ==
    /\ sessions' = [u \in Users |-> None]
    /\ inflight' = [r \in Requests |-> None]
    /\ last' = [op |-> "restart"]
    /\ UNCHANGED <<now, files, disk, settings>>

Next ==
    \/ Tick
    \/ \E u \in Users, reply \in Replies : Analyze(u, reply)
    \/ \E u \in Users : GetUserSession(u)
    \/ \E u \in Users : GetPendingInfo(u)
    \/ \E u \in Users : ClearPendingInfo(u)
    \/ \E u \in Users : ClearUserSession(u)
    \/ Restart

Spec == Init /\ [][Next]_vars

----------------------------------------------------------------------------
(* The same handler with the await of line 103 taken as a point where the   *)
(* request is suspended, which is what a NLU client that really awaits its   *)
(* call makes of it: two requests of one user in flight at once.             *)

AnalyzeBegin(r, u) ==
    /\ inflight[r] = None
    /\ LET g == get_session(sessions, files, u, now)
       IN  /\ sessions' = g.sessions
           /\ files' = g.files
           /\ inflight' = [inflight EXCEPT ![r] =
                             [user |-> u,
                              context |-> IF g.ret # None /\ "data" \in DOMAIN g.ret
                                          THEN g.ret.data
                                          ELSE None]]
           /\ last' = [op |-> "analyze_begin", user |-> u, ret |-> g.ret]
    /\ UNCHANGED <<now, disk, settings>>

AnalyzeEnd(r, reply) ==
    /\ inflight[r] # None
    /\ LET u == inflight[r].user
           a == analyze_route(sessions, files, u, reply, now)
       IN  /\ WithinHistory(a.sessions, u)
           /\ sessions' = a.sessions
           /\ files' = a.files
           /\ last' = [op |-> "analyze", user |-> u,
                       status |-> a.status, result |-> a.result]
    /\ inflight' = [inflight EXCEPT ![r] = None]
    /\ UNCHANGED <<now, disk, settings>>

NextConcurrent ==
    \/ Tick
    \/ \E r \in Requests, u \in Users : AnalyzeBegin(r, u)
    \/ \E r \in Requests, reply \in ConcurrentReplies : AnalyzeEnd(r, reply)
    \/ \E u \in Users : ClearUserSession(u)

SpecConcurrent == Init /\ [][NextConcurrent]_vars

----------------------------------------------------------------------------
(* The service on a directory that can fail and whose files can be damaged  *)
(* from outside the process.                                                *)

(* The condition of the directory changes. *)
SetDisk(d) ==
    /\ d # disk
    /\ disk' = d
    /\ last' = [op |-> "set_disk"]
    /\ UNCHANGED <<now, sessions, files, inflight, settings>>

(* What a damaged <user_id>.json can hold: text that is not JSON, or a JSON *)
(* object that lacks last_activity, data or conversation_history.           *)
DamagedFiles(u, t) ==
    { Truncated,
      json_dump([user_id |-> u, created_at |-> isoformat(t),
                 data |-> EmptyDict, conversation_history |-> << >>]),
      json_dump([user_id |-> u, created_at |-> isoformat(t),
                 last_activity |-> isoformat(t), conversation_history |-> << >>]),
      json_dump([user_id |-> u, created_at |-> isoformat(t),
                 last_activity |-> isoformat(t), data |-> EmptyDict]) }

(* The file of a user is damaged. *)
DamageFile(u, f) ==
    /\ files' = [files EXCEPT ![u] = f]
    /\ last' = [op |-> "damage_file", user |-> u]
    /\ UNCHANGED <<now, sessions, inflight, disk, settings>>

NextFaulty ==
    \/ Tick
    \/ \E u \in Users, reply \in ConcurrentReplies : Analyze(u, reply)
    \/ \E u \in Users : GetUserSession(u)
    \/ \E u \in Users : GetPendingInfo(u)
    \/ \E u \in Users : ClearPendingInfo(u)
    \/ \E u \in Users : ClearUserSession(u)
    \/ Restart
    \/ \E d \in DiskConditions : SetDisk(d)
    \/ \E u \in Users : \E f \in DamagedFiles(u, now) : DamageFile(u, f)

SpecFaulty == Init /\ [][NextFaulty]_vars

----------------------------------------------------------------------------
(* The service started with SESSION_TIMEOUT_MINUTES set in the environment  *)
(* or left to its default.                                                   *)

ConfiguredTimeouts == {15, default_session_timeout_minutes}

InitConfigured ==
    /\ now = 0
    /\ sessions = [u \in Users |-> None]
    /\ files = [u \in Users |-> None]
    /\ inflight = [r \in Requests |-> None]
    /\ disk = "ok"
    /\ settings \in { [session_timeout_minutes |-> m] : m \in ConfiguredTimeouts }
    /\ last = [op |-> "init"]

SpecConfigured == InitConfigured /\ [][Next]_vars

----------------------------------------------------------------------------
(* NLUService.analyze_text on its own, over the shapes a reply can take:    *)
(* every field present or absent.                                           *)

OptField(k, Vals) == {EmptyDict} \cup { k :> v : v \in Vals }

MissingLists == { << >>, <<"amount">>, <<"senderPhone", "amount">> }
ErrorLists == { << >>, <<"invalid amount">> }

Validations ==
    { c @@ m @@ e : c \in OptField("complete", BOOLEAN),
                    m \in OptField("missing_params", MissingLists),
                    e \in OptField("validation_errors", ErrorLists) }

NLUReplies ==
    { [ok |-> TRUE, body |-> i @@ v @@ a] :
        i \in OptField("intent", {"transfer", "unknown"}),
        v \in OptField("validation", Validations),
        a \in OptField("security_alert", BOOLEAN) }
    \cup { Unparseable }

NLUAnalyze(reply) ==
    /\ last' = [op |-> "nlu_analyze", reply |-> reply, result |-> analyze_text(reply)]
    /\ UNCHANGED <<now, sessions, files, inflight, disk, settings>>

NextNLU == \E reply \in NLUReplies : NLUAnalyze(reply)

SpecNLU == Init /\ [][NextNLU]_vars

(* The result of a pipeline whose NLU step gave the analysis nlu *)
PipelineResult(nlu) ==
    [success |-> nlu.success,
     execution_ready |-> Get(nlu, "execution_ready", FALSE),
     pipeline_steps |-> [nlu_analysis |-> nlu]]

(* extract_from_pipeline on the pipeline result of the analysis just made *)
ExtractFromPipeline ==
    /\ last.op = "nlu_analyze"
    /\ last' = [op |-> "extract_from_pipeline", nlu |-> last.result,
                extracted |-> extract_from_pipeline(PipelineResult(last.result))]
    /\ UNCHANGED <<now, sessions, files, inflight, disk, settings>>

NextPipeline ==
    \/ \E reply \in NLUReplies : NLUAnalyze(reply)
    \/ ExtractFromPipeline

SpecPipeline == Init /\ [][NextPipeline]_vars

----------------------------------------------------------------------------
(* The three collaborators of the routes, each called on its own over the   *)
(* outcomes of the call it wraps.                                            *)

ExecuteAction(method, outcome) ==
    /\ last' = [op |-> "execute_action", method |-> method, outcome |-> outcome,
                result |-> execute_action(method, outcome)]
    /\ UNCHANGED <<now, sessions, files, inflight, disk, settings>>

(* POST /voice/blockchain/execute; collaborator is what execute_action     *)
(* returned to the route.                                                   *)
ExecuteBlockchainAction(outcome) ==
    /\ last' = [op |-> "execute_blockchain_action", outcome |-> outcome,
                collaborator |-> execute_action("POST", outcome),
                response |-> execute_blockchain_action(outcome)]
    /\ UNCHANGED <<now, sessions, files, inflight, disk, settings>>

ConstructSpeechService(model_size, loads) ==
    /\ last' = [op |-> "speech_init", model_size |-> model_size, loads |-> loads,
                result |-> SpeechService_init(model_size, loads)]
    /\ UNCHANGED <<now, sessions, files, inflight, disk, settings>>

(* transcribe_audio on a service that was constructed *)
TranscribeAudio(model_size, audio, whisper) ==
    /\ ~SpeechService_init(model_size, TRUE).raised
    /\ last' = [op |-> "transcribe_audio", audio |-> audio, whisper |-> whisper,
                result |-> transcribe_audio(SpeechService_init(model_size, TRUE).ret,
                                            audio, whisper)]
    /\ UNCHANGED <<now, sessions, files, inflight, disk, settings>>

NextCollaborators ==
    \/ \E reply \in NLUReplies : NLUAnalyze(reply)
    \/ \E method \in HttpMethods, outcome \in HttpOutcomes : ExecuteAction(method, outcome)
    \/ \E outcome \in HttpOutcomes : ExecuteBlockchainAction(outcome)
    \/ \E model_size \in ModelSizes, loads \in BOOLEAN :
          ConstructSpeechService(model_size, loads)
    \/ \E model_size \in ModelSizes, audio \in AudioFiles, whisper \in WhisperOutcomes :
          TranscribeAudio(model_size, audio, whisper)

SpecCollaborators == Init /\ [][NextCollaborators]_vars

----------------------------------------------------------------------------
(* Validator.check_missing_params on its own, over required lists of up to  *)
(* MaxRequired names and provided dicts that give each name a value or      *)
(* none.                                                                     *)

ParamNames == {"senderPhone", "recipientPhone", "amount"}

ParamValues ==
    {PyStr("653112616"), PyStr("0"), PyStr(""), None, PyInt(0), PyInt(5000), PyBool(FALSE),
     PyList(<< >>)}

RequiredLists ==
    UNION { [1..n -> ParamNames] : n \in 0..MaxRequired }

ProvidedDicts ==
    UNION { [keys -> ParamValues] : keys \in SUBSET ParamNames }

(* A required list and a provided dict are chosen. *)
InitValidator ==
    /\ now = 0
    /\ sessions = [u \in Users |-> None]
    /\ files = [u \in Users |-> None]
    /\ inflight = [r \in Requests |-> None]
    /\ disk = "ok"
    /\ settings = [session_timeout_minutes |-> default_session_timeout_minutes]
    /\ last \in { [op |-> "input", required |-> required, provided |-> provided] :
                    required \in RequiredLists, provided \in ProvidedDicts }

CheckMissingParams ==
    /\ last.op = "input"
    /\ last' = [op |-> "check_missing_params",
                required |-> last.required, provided |-> last.provided,
                ret |-> check_missing_params(last.required, last.provided)]
    /\ UNCHANGED <<now, sessions, files, inflight, disk, settings>>

NextValidator == CheckMissingParams

SpecValidator == InitValidator /\ [][NextValidator]_vars

(* Validator.validate_age on its own.  The ages: integers around the two     *)
(* ends of the range, floats with and without a fraction, strings that       *)
(* write a number and strings that do not, booleans, None and a list.        *)
AgeInts == (0 - 1)..130

AgeFloats == {0 - 185, 0, 170, 175, 179, 180, 185, 500, 1200, 1205, 1209, 1210}

AgeStrings ==
    { << >>, <<"1", "7">>, <<"1", "8">>, <<" ", "1", "8", " ">>, <<"+", "1", "8">>,
      <<"-", "1", "8">>, <<"1", "8", ".", "5">>, <<"1", "2", "0">>, <<"1", "2", "1">>,
      <<"a", "b", "c">>, <<"1", "8", " ", "a", "n", "s">>, <<"1", " ", "8">>, <<"-">> }

Ages ==
    { PyInt(n) : n \in AgeInts }
    \cup { PyFloat(t) : t \in AgeFloats }
    \cup { PyFloatSpecial(name) : name \in {"inf", "nan"} }
    \cup { PyChars(chars) : chars \in AgeStrings }
    \cup { PyBool(b) : b \in BOOLEAN }
    \cup { None, PyList(<< >>) }

(* An age is chosen. *)
InitAge ==
    /\ now = 0
    /\ sessions = [u \in Users |-> None]
    /\ files = [u \in Users |-> None]
    /\ inflight = [r \in Requests |-> None]
    /\ disk = "ok"
    /\ settings = [session_timeout_minutes |-> default_session_timeout_minutes]
    /\ last \in { [op |-> "input", age |-> age] : age \in Ages }

ValidateAge ==
    /\ last.op = "input"
    /\ last' = [op |-> "validate_age", age |-> last.age, result |-> validate_age(last.age)]
    /\ UNCHANGED <<now, sessions, files, inflight, disk, settings>>

NextAge == ValidateAge

SpecAge == InitAge /\ [][NextAge]_vars

----------------------------------------------------------------------------
(* Two users of one ConversationService.  The sessions dict is keyed by      *)
(* user_id and the file of a user is sessions_dir / "<user_id>.json".        *)

TwoUsers == {"u1", "u2"}

(* The reply of an incomplete turn, which is stored *)
TwoUsersReplies ==
    { Reply("transfer", recipientOnly,
            Validation(FALSE, <<"senderPhone", "amount">>, << >>), FALSE) }

InitTwoUsers ==
    /\ now = 0
    /\ sessions = [u \in TwoUsers |-> None]
    /\ files = [u \in TwoUsers |-> None]
    /\ inflight = [r \in Requests |-> None]
    /\ disk = "ok"
    /\ settings = [session_timeout_minutes |-> default_session_timeout_minutes]
    /\ last = [op |-> "init"]

RestartTwoUsers ==
    /\ sessions' = [u \in TwoUsers |-> None]
    /\ last' = [op |-> "restart"]
    /\ UNCHANGED <<now, files, inflight, disk, settings>>

NextTwoUsers ==
    \/ Tick
    \/ \E u \in TwoUsers, reply \in TwoUsersReplies : Analyze(u, reply)
    \/ \E u \in TwoUsers : GetUserSession(u)
    \/ \E u \in TwoUsers : GetPendingInfo(u)
    \/ \E u \in TwoUsers : ClearPendingInfo(u)
    \/ \E u \in TwoUsers : ClearUserSession(u)
    \/ RestartTwoUsers

SpecTwoUsers == InitTwoUsers /\ [][NextTwoUsers]_vars

----------------------------------------------------------------------------
(* Properties *)

Range(f) == { f[x] : x \in DOMAIN f }

(* What a read of the user's pending intent returns in the current state *)
StoredPending(u) == get_pending_info(sessions, files, u, now).ret

(* The session a read would find for the user, in memory or on disk,       *)
(* expired or not.                                                          *)
StoredSession(u) ==
    IF sessions[u] # None THEN sessions[u]
    ELSE IF files[u] # None THEN files[u].json
    ELSE None

Age(session) == now - session.last_activity.iso

(* The step is a turn of user u that was analysed successfully. *)
TurnOf(u) ==
    /\ last'.op = "analyze"
    /\ last'.user = u
    /\ last'.status = 200

(* C1: when the intent of a successfully analysed, incomplete turn equals    *)
(* the intent of the pending intent stored for the user, the collected      *)
(* parameters stored after the turn are the stored ones updated with the    *)
(* turn's: old keys are kept and the turn's values win.                      *)
C1_SameIntentMerge ==
    [][\A u \in Users :
        ( /\ TurnOf(u)
          /\ ~last'.result.is_complete
          /\ StoredPending(u) # None
          /\ StoredPending(u).intent = last'.result.intent )
        => /\ StoredPending(u)' # None
           /\ StoredPending(u)'.collected_params =
                 Update(StoredPending(u).collected_params, last'.result.parameters)
      ]_vars

(* C3: after a successfully analysed turn whose is_complete is true, no     *)
(* pending intent is stored for the user.                                    *)
C3_CompleteClearsPending ==
    ( /\ last.op = "analyze"
      /\ last.status = 200
      /\ last.result.is_complete )
    => StoredPending(last.user) = None

(* C4: a turn classified "unknown" leaves the intent, the collected         *)
(* parameters and the missing parameters of the stored pending intent as     *)
(* they were.                                                                *)
C4_UnknownKeepsPending ==
    [][\A u \in Users :
        ( /\ TurnOf(u)
          /\ last'.result.intent = "unknown"
          /\ StoredPending(u) # None )
        => /\ StoredPending(u)' # None
           /\ StoredPending(u)'.intent = StoredPending(u).intent
           /\ StoredPending(u)'.collected_params = StoredPending(u).collected_params
           /\ StoredPending(u)'.missing_params = StoredPending(u).missing_params
      ]_vars

(* C5: in every reachable state the missing_params of every stored pending  *)
(* intent are exactly the parameters required for its intent that its       *)
(* collected_params lack or hold with a falsy value.                         *)
MissingIsExact(session) ==
    (session # None /\ "pending_info" \in DOMAIN session.data)
    => LET p == session.data["pending_info"]
       IN  Range(p.missing_params) =
              Range(check_missing_params(required_params(p.intent), p.collected_params))

C5_MissingNeverStale ==
    \A u \in Users : MissingIsExact(StoredSession(u))

(* C8: when the known intent of a successfully analysed turn differs from   *)
(* the intent of the stored pending intent, a pending intent stored after    *)
(* the turn carries the turn's intent and exactly the turn's parameters: no  *)
(* key collected for the old intent survives.                                *)
C8_TopicSwitchDiscards ==
    [][\A u \in Users :
        ( /\ TurnOf(u)
          /\ last'.result.intent # "unknown"
          /\ StoredPending(u) # None
          /\ StoredPending(u).intent # "unknown"
          /\ StoredPending(u).intent # last'.result.intent
          /\ StoredPending(u)' # None )
        => /\ StoredPending(u)'.intent = last'.result.intent
           /\ StoredPending(u)'.collected_params = last'.result.parameters
      ]_vars

(* The pending intent in the context a suspended request read *)
ContextPending(r) ==
    IF inflight[r].context # None /\ "pending_info" \in DOMAIN inflight[r].context
    THEN inflight[r].context["pending_info"]
    ELSE None

(* C2: two concurrent turns of one user and one intent, each bringing one   *)
(* distinct parameter: when the second of them ends, whatever the order of   *)
(* their steps, the stored pending intent holds both parameters.  The turn   *)
(* that ends finds stored a pending intent that was written after it read    *)
(* the session, by the other turn.                                           *)
C2_ConcurrentTurnsBothKept ==
    [][\A r \in Requests, u \in Users :
        ( /\ inflight[r] # None
          /\ inflight[r].user = u
          /\ inflight'[r] = None
          /\ TurnOf(u)
          /\ StoredPending(u) # None
          /\ StoredPending(u) # ContextPending(r)
          /\ StoredPending(u).intent = last'.result.intent
          /\ Cardinality(DOMAIN StoredPending(u).collected_params) = 1
          /\ Cardinality(DOMAIN last'.result.parameters) = 1
          /\ DOMAIN StoredPending(u).collected_params # DOMAIN last'.result.parameters )
        => /\ StoredPending(u)' # None
           /\ (DOMAIN StoredPending(u).collected_params)
                 \cup (DOMAIN last'.result.parameters)
                 \subseteq DOMAIN StoredPending(u)'.collected_params
      ]_vars

(* The step is a read of user u's session or pending intent. *)
ReadOf(u) ==
    /\ last'.op \in {"get_session", "get_pending_info"}
    /\ last'.user = u

(* C6: a read never returns a session, or the pending intent of a session,  *)
(* whose last_activity lies more than session_timeout before now, be the     *)
(* session in memory or only on disk; a session aged session_timeout or      *)
(* less is returned; and a turn recorded after the expiry starts a new       *)
(* session that holds none of the old session's history entries.             *)
C6_ExpiredUnreachable ==
    [][\A u \in Users :
        /\ ( last'.op = "get_session" /\ last'.user = u /\ last'.ret # None )
           => /\ last'.ret = StoredSession(u)
              /\ now' - last'.ret.last_activity.iso <= session_timeout
        /\ ( last'.op = "get_pending_info" /\ last'.user = u /\ last'.ret # None )
           => /\ StoredSession(u) # None
              /\ Age(StoredSession(u)) <= session_timeout
              /\ last'.ret = StoredSession(u).data["pending_info"]
        /\ ( last'.op = "get_session" /\ last'.user = u
             /\ StoredSession(u) # None /\ Age(StoredSession(u)) <= session_timeout )
           => last'.ret = StoredSession(u)
        /\ ( last'.op = "analyze" /\ last'.user = u
             /\ StoredSession(u) # None /\ Age(StoredSession(u)) > session_timeout
             /\ sessions'[u] # None )
           => /\ sessions'[u].created_at = isoformat(now)
              /\ Len(sessions'[u].conversation_history) = 1
              /\ \A e \in Range(StoredSession(u).conversation_history) :
                    e \notin Range(sessions'[u].conversation_history)
      ]_vars

(* A read has returned a session aged exactly session_timeout. *)
C6_Witness ==
    /\ last.op = "get_session"
    /\ last.ret # None
    /\ Age(last.ret) = session_timeout

(* C7: when a read finds the user's session expired and returns nothing,    *)
(* no file of that user is left afterwards, whether the expired session was  *)
(* in memory or only on disk.                                                *)
C7_LazyExpiryDeletesFile ==
    [][\A u \in Users :
        ( /\ ReadOf(u)
          /\ StoredSession(u) # None
          /\ Age(StoredSession(u)) > session_timeout )
        => /\ last'.ret = None
           /\ files'[u] = None
      ]_vars

(* The analysis of the reply that ran last, under SpecNLU *)
Analysed == last.op = "nlu_analyze" /\ last.result.success

(* C9: execution_ready is true exactly when is_complete is true and         *)
(* security_alert is false; a reply whose security_alert is true is never    *)
(* execution_ready.                                                          *)
C9_AlertBlocksExecution ==
    Analysed =>
        /\ last.result.execution_ready
              <=> (last.result.is_complete /\ ~last.result.security_alert)
        /\ last.result.security_alert = Get(last.reply.body, "security_alert", FALSE)
        /\ Get(last.reply.body, "security_alert", FALSE) => ~last.result.execution_ready

(* A reply with nothing missing, no validation error and a security alert *)
C9_Witness ==
    /\ Analysed
    /\ last.result.is_complete
    /\ last.result.security_alert
    /\ ~last.result.execution_ready

(* C10: is_complete is true exactly when the missing-parameter list and the *)
(* validation-error list of the turn are both empty.                         *)
C10_CompleteIffNothingMissingNoErrors ==
    Analysed =>
        /\ last.result.is_complete
              <=> ( last.result.missing_parameters = << >>
                    /\ last.result.validation_errors = << >> )
        /\ last.result.missing_parameters =
              Get(Get(last.reply.body, "validation", EmptyDict), "missing_params", << >>)
        /\ last.result.validation_errors =
              Get(Get(last.reply.body, "validation", EmptyDict), "validation_errors", << >>)

(* A reply with nothing missing and a validation error: not complete *)
C10_Witness ==
    /\ Analysed
    /\ last.result.missing_parameters = << >>
    /\ last.result.validation_errors # << >>
    /\ ~last.result.is_complete

(* The session a read of user u would return in the current state, expired  *)
(* sessions being answered with None.                                        *)
LiveSession(u) == get_session(sessions, files, u, now).ret

(* The history of a session, empty when there is no session *)
HistoryOf(session) ==
    IF session = None THEN << >> ELSE session.conversation_history

(* C11: every successfully analysed turn of a user, complete or not, leaves *)
(* a session for the user whose last_activity is the time of the turn and   *)
(* whose history is the history of the session the turn found, followed by  *)
(* exactly one new entry; a first turn creates the session.                  *)
C11_EveryTurnStampsAndAppends ==
    [][\A u \in Users :
        TurnOf(u)
        => /\ sessions'[u] # None
           /\ sessions'[u].last_activity = isoformat(now)
           /\ Len(sessions'[u].conversation_history) = Len(HistoryOf(LiveSession(u))) + 1
           /\ SubSeq(sessions'[u].conversation_history, 1, Len(HistoryOf(LiveSession(u))))
                 = HistoryOf(LiveSession(u))
      ]_vars

(* The step wrote user u's session: a turn that stored, or a pending intent *)
(* that was cleared.                                                         *)
WriteOf(u) ==
    /\ sessions'[u] # None
    /\ sessions'[u] # sessions[u]
    /\ \/ TurnOf(u)
       \/ last'.op = "clear_pending_info" /\ last'.user = u

(* C12: a session written with a successful durable write is read back in   *)
(* full after a restart: the write leaves a file that loads to the session   *)
(* written; a restart empties the memory and leaves the files; and a read    *)
(* that finds no session in memory and a file aged session_timeout or less   *)
(* returns the session of the file, field for field, and keeps it in memory. *)
C12_SessionSurvivesRestart ==
    [][\A u \in Users :
        /\ (WriteOf(u) /\ disk = "ok")
           => /\ files'[u] # None
              /\ parses(files'[u])
              /\ json_load(files'[u]) = sessions'[u]
        /\ last'.op = "restart"
           => /\ files' = files
              /\ sessions'[u] = None
        /\ ( /\ last'.op = "get_session" /\ last'.user = u
             /\ sessions[u] = None
             /\ files[u] # None /\ parses(files[u]) /\ WellFormed(json_load(files[u]))
             /\ Age(json_load(files[u])) <= session_timeout )
           => /\ last'.ret = json_load(files[u])
              /\ sessions'[u] = json_load(files[u])
      ]_vars

(* A read after a restart has returned, from its file, a session that holds *)
(* a pending intent and a history.                                           *)
C12_Witness ==
    /\ last.op = "get_session"
    /\ last.loaded
    /\ "pending_info" \in DOMAIN last.ret.data
    /\ Len(last.ret.conversation_history) > 0
    /\ last.ret = json_load(files[last.user])

(* C13: whatever the file of a user holds, with a usable directory a read   *)
(* of the user's session raises nothing and returns None or a session with   *)
(* every field, and a turn of the user that stores is answered with status  *)
(* 200: create_or_update_session raises nothing.                             *)
C13_DamagedRecordIsNotFound ==
    [][\A u \in Users :
        /\ (last'.op = "get_session" /\ last'.user = u /\ disk = "ok")
           => /\ ~last'.raised
              /\ last'.ret = None \/ WellFormed(last'.ret)
        /\ (last'.op = "analyze" /\ last'.user = u /\ disk = "ok")
           => last'.status = 200
      ]_vars

(* The turn of user u that the step is reaches the write of                 *)
(* create_or_update_session: the read at its start raises nothing and finds *)
(* no session or one with every field.                                       *)
ReachesWrite(u) ==
    LET g == get_session(sessions, files, u, now)
    IN  ~g.raised /\ (g.ret = None \/ WellFormed(g.ret))

(* The session create_or_update_session starts from *)
BaseSession(u) ==
    IF LiveSession(u) # None THEN LiveSession(u) ELSE create_new_session(u, now)

(* C14: when the write of a turn fails, the turn is still answered with     *)
(* status 200 and the session in memory carries it: last_activity is the    *)
(* time of the turn, the turn's pending intent is in data beside the keys   *)
(* data held, and one entry is appended to the history; and a read of a     *)
(* session that is in memory and not expired returns that session, whatever *)
(* the file holds.                                                           *)
C14_FailedWriteKeepsMemory ==
    [][\A u \in Users :
        /\ ( /\ last'.op = "analyze" /\ last'.user = u
             /\ disk # "ok"
             /\ ReachesWrite(u) )
           => /\ last'.status = 200
              /\ sessions'[u] # None
              /\ sessions'[u].created_at = BaseSession(u).created_at
              /\ sessions'[u].last_activity = isoformat(now)
              /\ DOMAIN sessions'[u].data = DOMAIN BaseSession(u).data \cup {"pending_info"}
              /\ sessions'[u].data["pending_info"].intent = last'.result.intent
              /\ sessions'[u].data["pending_info"].collected_params = last'.result.parameters
              /\ Len(sessions'[u].conversation_history)
                    = Len(BaseSession(u).conversation_history) + 1
              /\ SubSeq(sessions'[u].conversation_history, 1,
                        Len(BaseSession(u).conversation_history))
                    = BaseSession(u).conversation_history
        /\ ( /\ last'.op = "get_session" /\ last'.user = u
             /\ sessions[u] # None
             /\ Age(sessions[u]) <= session_timeout )
           => /\ last'.ret = sessions[u]
              /\ sessions'[u] = sessions[u]
      ]_vars

(* A read has returned, from memory, the session of a turn whose write      *)
(* failed: the file does not hold it.                                        *)
C14_Witness ==
    /\ last.op = "get_session"
    /\ last.ret # None
    /\ WellFormed(last.ret)
    /\ "pending_info" \in DOMAIN last.ret.data
    /\ files[last.user] # json_dump(last.ret)
    /\ disk # "ok"

(* C15: when clear_session returns, the user has no session in memory and   *)
(* no file, and a read finds nothing; clear_session called again in that     *)
(* state raises nothing and changes nothing, as it does for a user who never *)
(* had a session; and nothing but a turn that stores brings a session back.  *)
C15_DeleteRemovesBothIdempotent ==
    [][\A u \in Users :
        /\ (last'.op = "clear_session" /\ last'.user = u /\ ~last'.raised)
           => /\ sessions'[u] = None
              /\ files'[u] = None
              /\ LiveSession(u)' = None
              /\ clear_session(sessions', files', u).sessions = sessions'
              /\ clear_session(sessions', files', u).files = files'
              /\ ~clear_session(sessions', files', u).raised
        /\ (last'.op = "clear_session" /\ last'.user = u
            /\ sessions[u] = None /\ files[u] = None)
           => /\ ~last'.raised
              /\ UNCHANGED <<sessions, files>>
        /\ (sessions[u] = None /\ files[u] = None
            /\ last'.op \notin {"analyze", "damage_file"})
           => sessions'[u] = None /\ files'[u] = None
      ]_vars

(* clear_session has returned after deleting a session or a file. *)
C15_Witness ==
    /\ last.op = "clear_session"
    /\ last.removed
    /\ ~last.raised
    /\ sessions[last.user] = None
    /\ files[last.user] = None

(* C16: while no write and no delete fails, every user with a session in    *)
(* memory has a file, and the file loads to that very session.               *)
C16_MemoryAndDiskAgree ==
    \A u \in Users :
        sessions[u] # None
        => /\ files[u] # None
           /\ parses(files[u])
           /\ json_load(files[u]) = sessions[u]

(* clear_pending_info has removed the pending intent of a session that      *)
(* holds a history, in memory and in the file.                               *)
C16_Witness ==
    /\ last.op = "clear_pending_info"
    /\ sessions[last.user] # None
    /\ "pending_info" \notin DOMAIN sessions[last.user].data
    /\ Len(sessions[last.user].conversation_history) > 0
    /\ files[last.user] = json_dump(sessions[last.user])

(* seq is the beginning of longer *)
IsPrefix(seq, longer) ==
    /\ Len(seq) <= Len(longer)
    /\ SubSeq(longer, 1, Len(seq)) = seq

(* The turn the step is calls create_or_update_session: its reply does not  *)
(* carry validation.complete = true.                                         *)
StoringTurnOf(u) ==
    /\ TurnOf(u)
    /\ ~Get(last'.result.validation, "complete", FALSE)

(* C17: on a session that is not expired, every step but clear_session      *)
(* leaves a session whose history begins with the history it had: a turn    *)
(* that calls create_or_update_session adds exactly one entry at the end,    *)
(* stamped with the time of the turn, and every other step (reads,           *)
(* clear_pending_info, a turn that stores nothing, a restart) leaves the     *)
(* history as it was.                                                        *)
C17_HistoryAppendOnly ==
    [][\A u \in Users :
        (LiveSession(u) # None /\ last'.op # "clear_session")
        => /\ StoredSession(u)' # None
           /\ IsPrefix(LiveSession(u).conversation_history,
                       StoredSession(u)'.conversation_history)
           /\ IF StoringTurnOf(u)
              THEN /\ Len(StoredSession(u)'.conversation_history)
                         = Len(LiveSession(u).conversation_history) + 1
                   /\ StoredSession(u)'.conversation_history[
                          Len(StoredSession(u)'.conversation_history)].timestamp
                         = isoformat(now)
              ELSE StoredSession(u)'.conversation_history
                      = LiveSession(u).conversation_history
      ]_vars

(* A second turn has been appended behind a first, different one. *)
C17_Witness ==
    /\ last.op = "analyze"
    /\ sessions[last.user] # None
    /\ Len(sessions[last.user].conversation_history) = 2
    /\ sessions[last.user].conversation_history[1]
          # sessions[last.user].conversation_history[2]
    /\ sessions[last.user].conversation_history[2].timestamp = isoformat(now)

(* C18: the clock never going back, a step that finds a session of the user *)
(* and leaves one leaves a last_activity that is not earlier than the one it *)
(* found, and the last_activity of every stored session is not earlier than  *)
(* its created_at.                                                           *)
C18_LastActivityMonotone ==
    [][\A u \in Users :
        /\ now' >= now
        /\ (StoredSession(u) # None /\ StoredSession(u)' # None)
           => fromisoformat(StoredSession(u)'.last_activity)
                 >= fromisoformat(StoredSession(u).last_activity)
        /\ StoredSession(u)' # None
           => fromisoformat(StoredSession(u)'.last_activity)
                 >= fromisoformat(StoredSession(u)'.created_at)
      ]_vars

(* A later turn of the same session has moved last_activity past            *)
(* created_at.                                                               *)
C18_Witness ==
    /\ last.op = "analyze"
    /\ sessions[last.user] # None
    /\ Len(sessions[last.user].conversation_history) = 2
    /\ fromisoformat(sessions[last.user].last_activity)
          > fromisoformat(sessions[last.user].created_at)
    /\ sessions[last.user].last_activity = isoformat(now)

(* C19: get_pending_info on a user whose session is not expired leaves the  *)
(* session as it was, field for field, in memory and in the file (a session  *)
(* found only in its file is kept in memory as the file holds it), so the    *)
(* read does not move last_activity; and whenever get_pending_info changes   *)
(* the store otherwise, it has deleted a session that was expired.           *)
C19_FetchPendingReadOnly ==
    [][\A u \in Users :
        (last'.op = "get_pending_info" /\ last'.user = u)
        => /\ LiveSession(u) # None
              => /\ sessions'[u] = LiveSession(u)
                 /\ StoredSession(u)' = StoredSession(u)
                 /\ files' = files
                 /\ last'.ret = Get(LiveSession(u).data, "pending_info", None)
           /\ (LiveSession(u) = None /\ <<sessions, files>>' # <<sessions, files>>)
              => /\ StoredSession(u) # None
                 /\ Age(StoredSession(u)) > session_timeout
                 /\ sessions'[u] = None
                 /\ files'[u] = None
      ]_vars

(* get_pending_info has returned the pending intent of a session that was   *)
(* last active some time ago, and the session still is in both copies.       *)
C19_Witness ==
    /\ last.op = "get_pending_info"
    /\ last.ret # None
    /\ sessions[last.user] # None
    /\ Age(sessions[last.user]) > 0
    /\ files[last.user] = json_dump(sessions[last.user])

(* A data dict that names a security alert, at its top or in its pending    *)
(* intent                                                                    *)
HoldsAlert(d) ==
    \/ "security_alert" \in DOMAIN d
    \/ /\ "pending_info" \in DOMAIN d
       /\ "security_alert" \in DOMAIN d["pending_info"]

(* C20: after a successfully analysed turn whose security_alert is true,    *)
(* the user has a session, and its data or one entry of its history names   *)
(* the alert.                                                                *)
C20_AlertIsRecorded ==
    ( /\ last.op = "analyze"
      /\ last.status = 200
      /\ last.result.security_alert )
    => /\ StoredSession(last.user) # None
       /\ \/ HoldsAlert(StoredSession(last.user).data)
          \/ \E e \in Range(StoredSession(last.user).conversation_history) :
                HoldsAlert(e.data)

(* The user has no session (nothing in memory, no file), or one that is    *)
(* expired, in memory or in a file that holds a whole session.               *)
MissingOrExpired(u) ==
    IF sessions[u] # None
    THEN is_session_expired(sessions[u], now)
    ELSE \/ files[u] = None
         \/ /\ parses(files[u])
            /\ WellFormed(json_load(files[u]))
            /\ is_session_expired(json_load(files[u]), now)

(* C21: get_session, get_pending_info, clear_pending_info and clear_session *)
(* called for a user who has no session or an expired one raise nothing,     *)
(* and the two reads return None.                                            *)
C21_NeverRaisesOnMissingOrExpired ==
    [][\A u \in Users :
        ( /\ last'.op \in {"get_session", "get_pending_info",
                           "clear_pending_info", "clear_session"}
          /\ last'.user = u
          /\ MissingOrExpired(u) )
        => /\ ~last'.raised
           /\ last'.op \in {"get_session", "get_pending_info"} => last'.ret = None
      ]_vars

(* C22: when a successfully analysed turn of a user follows at once a turn  *)
(* of the same user with the same analysis, the pending intent stored after *)
(* the second holds the collected_params and the missing_params that were   *)
(* stored after the first; when the first stored none, neither does the     *)
(* second.                                                                   *)
C22_RecordingTwiceIsRecordingOnce ==
    [][\A u \in Users :
        ( /\ TurnOf(u)
          /\ last.op = "analyze"
          /\ last.user = u
          /\ last.status = 200
          /\ last.result = last'.result )
        => IF StoredPending(u) = None
           THEN StoredPending(u)' = None
           ELSE /\ StoredPending(u)' # None
                /\ StoredPending(u)'.collected_params = StoredPending(u).collected_params
                /\ StoredPending(u)'.missing_params = StoredPending(u).missing_params
      ]_vars

(* The same incomplete turn has been stored twice: two equal entries in the *)
(* history, and the pending intent of the turn with its parameters and its   *)
(* missing list.                                                             *)
C22_Witness ==
    /\ last.op = "analyze"
    /\ last.status = 200
    /\ sessions[last.user] # None
    /\ Len(sessions[last.user].conversation_history) = 2
    /\ sessions[last.user].conversation_history[1]
          = sessions[last.user].conversation_history[2]
    /\ "pending_info" \in DOMAIN sessions[last.user].data
    /\ sessions[last.user].data["pending_info"].collected_params = last.result.parameters
    /\ sessions[last.user].data["pending_info"].missing_params # << >>
    /\ sessions[last.user].data["pending_info"].missing_params
          = last.result.missing_parameters

(* C23: when a turn finds in memory an unexpired session that the file does *)
(* not hold, an earlier write having failed, and its own write succeeds, the *)
(* file holds after the turn the whole session that is in memory: the        *)
(* history the turn found, with the entries whose write failed, followed by  *)
(* the entry of the turn.                                                    *)
C23_NextWritePersistsAll ==
    [][\A u \in Users :
        ( /\ TurnOf(u)
          /\ disk = "ok"
          /\ sessions[u] # None
          /\ ~is_session_expired(sessions[u], now)
          /\ WellFormed(sessions[u])
          /\ files[u] # json_dump(sessions[u]) )
        => /\ files'[u] = json_dump(sessions'[u])
           /\ IsPrefix(sessions[u].conversation_history,
                       json_load(files'[u]).conversation_history)
           /\ Len(json_load(files'[u]).conversation_history)
                 = Len(sessions[u].conversation_history) + 1
           /\ json_load(files'[u]).created_at = sessions[u].created_at
      ]_vars

(* A turn that found the file behind the memory has written both turns. *)
C23_Witness ==
    /\ last.op = "analyze"
    /\ last.status = 200
    /\ last.stale
    /\ disk = "ok"
    /\ Len(sessions[last.user].conversation_history) = 2
    /\ files[last.user] = json_dump(sessions[last.user])

(* C24: a read of a session that is in memory returns nothing exactly when  *)
(* the session was last active more than settings.session_timeout_minutes   *)
(* before, whatever value the setting was started with.                      *)
C24_ExpiryUsesConfiguredTimeout ==
    [][\A u \in Users :
        (last'.op = "get_session" /\ last'.user = u /\ sessions[u] # None)
        => ( last'.ret = None
             <=> Age(sessions[u]) > settings.session_timeout_minutes )
      ]_vars

(* The call that execute_action wraps fails: the method is neither POST nor *)
(* GET, no response arrives, the status is an error, or the body is not      *)
(* JSON.                                                                     *)
HttpCallFails(method, outcome) ==
    \/ upper(method) \notin {"POST", "GET"}
    \/ ~outcome.responds
    \/ outcome.status_code >= 400
    \/ ~outcome.is_json

(* C25: analyze_text, execute_action and transcribe_audio raise nothing;    *)
(* each returns a result whose success is false, with an error field,       *)
(* exactly when the call it wraps fails: a reply that cannot be parsed, a    *)
(* method that is not supported, a response that is missing, in error or not *)
(* JSON, an audio file or a transcription that fails.                        *)
C25_CollaboratorFailuresAreValues ==
    /\ last.op = "nlu_analyze"
       => /\ last.result.success <=> last.reply.ok
          /\ ~last.result.success => "error" \in DOMAIN last.result
    /\ last.op = "execute_action"
       => /\ ~last.result.raised
          /\ last.result.ret.success <=> ~HttpCallFails(last.method, last.outcome)
          /\ ~last.result.ret.success => "error" \in DOMAIN last.result.ret
    /\ last.op = "transcribe_audio"
       => /\ ~last.result.raised
          /\ last.result.ret.success <=> (last.audio = "ok" /\ last.whisper = "ok")
          /\ ~last.result.ret.success => "error" \in DOMAIN last.result.ret

(* execute_action has been called with a method it does not support and has *)
(* returned a failure.                                                       *)
C25_Witness ==
    /\ last.op = "execute_action"
    /\ upper(last.method) = "DELETE"
    /\ last.outcome.responds
    /\ ~last.result.raised
    /\ ~last.result.ret.success
    /\ "error" \in DOMAIN last.result.ret

(* C27: when SpeechService() returns, its model is not None and             *)
(* get_model_info reports loaded = true with the model_size it was          *)
(* constructed with; when the model does not load, the constructor raises    *)
(* and yields no service.                                                    *)
C27_ConstructedServiceHasModel ==
    last.op = "speech_init"
    => /\ last.result.raised <=> ~last.loads
       /\ ~last.result.raised
          => /\ last.result.ret.model # None
             /\ get_model_info(last.result.ret)
                   = [model_size |-> last.model_size, loaded |-> TRUE]

(* The model did not load and the constructor raised. *)
C27_Witness ==
    /\ last.op = "speech_init"
    /\ ~last.loads
    /\ last.result.raised

(* The required name at place i is not a key of provided, or its value is   *)
(* the empty string, None, zero, False or an empty collection.               *)
LacksValue(required, provided, i) ==
    \/ required[i] \notin DOMAIN provided
    \/ provided[required[i]] = PyStr("")
    \/ provided[required[i]] = None
    \/ provided[required[i]] = PyInt(0)
    \/ provided[required[i]] = PyBool(FALSE)
    \/ provided[required[i]] = PyList(<< >>)
    \/ provided[required[i]] = PyDict(EmptyDict)

(* C26: check_missing_params returns the elements of required that are not  *)
(* keys of provided or have a falsy value there, each as often and in the    *)
(* order required lists them: its k-th element is the k-th such element of   *)
(* required; the list is empty exactly when every required name has a       *)
(* truthy value.                                                             *)
C26_MissingParamsExact ==
    last.op = "check_missing_params"
    => LET required == last.required
           provided == last.provided
           lacking == { i \in 1..Len(required) : LacksValue(required, provided, i) }
       IN  /\ Len(last.ret) = Cardinality(lacking)
           /\ \A i \in lacking :
                 last.ret[Cardinality({ j \in lacking : j <= i })] = required[i]
           /\ last.ret = << >>
                 <=> \A i \in 1..Len(required) : ~LacksValue(required, provided, i)

(* Two names are required in an order that is not the alphabetical one: the *)
(* first is given as 0, the second is not given, and both come back, in the  *)
(* order of required.                                                        *)
C26_Witness ==
    /\ last.op = "check_missing_params"
    /\ last.required = <<"senderPhone", "amount">>
    /\ "senderPhone" \in DOMAIN last.provided
    /\ last.provided["senderPhone"] = PyInt(0)
    /\ "amount" \notin DOMAIN last.provided
    /\ last.ret = <<"senderPhone", "amount">>

(* C28: after a successfully analysed turn with a known intent whose         *)
(* is_complete is false, a read of the user's pending intent returns a       *)
(* pending intent with the intent name of the turn, whatever the reply's     *)
(* own validation.complete says.                                             *)
C28_IncompleteTurnIsPending ==
    ( /\ last.op = "analyze"
      /\ last.status = 200
      /\ last.result.intent # "unknown"
      /\ ~last.result.is_complete )
    => /\ StoredPending(last.user) # None
       /\ StoredPending(last.user).intent = last.result.intent

(* C29: a step of the service that finds a complete session in the user's    *)
(* file leaves in it that session, or the complete session the step holds    *)
(* in memory afterwards, or removes the file (expiry, clear): a write that   *)
(* fails never leaves the file empty or cut short.                           *)
C29_FailedWriteKeepsRecord ==
    [][\A u \in Users :
        ( /\ last'.op # "damage_file"
          /\ files[u] # None
          /\ parses(files[u])
          /\ WellFormed(json_load(files[u])) )
        => \/ files'[u] = files[u]
           \/ files'[u] = None
           \/ /\ sessions'[u] # None
              /\ files'[u] = json_dump(sessions'[u])]_vars

(* The operations of the service that are invoked for one user *)
UserOperations ==
    {"analyze", "get_session", "get_pending_info", "clear_pending_info", "clear_session"}

C31_FailedAnalysisLeavesSession ==
    [][\A u \in Users :
        ( /\ last'.op = "analyze"
          /\ last'.user = u
          /\ last'.result # None
          /\ ~last'.result.success
          /\ LiveSession(u) # None )
        => /\ LiveSession(u)' = LiveSession(u)
           /\ files'[u] = files[u]]_vars

(* A turn has failed in its analysis, at a later time than the last          *)
(* activity of a session that holds a pending intent.                        *)
C31_Witness ==
    /\ last.op = "analyze"
    /\ last.status = 500
    /\ ~last.result.success
    /\ sessions[last.user] # None
    /\ "pending_info" \in DOMAIN sessions[last.user].data
    /\ Age(sessions[last.user]) > 0
    /\ Age(sessions[last.user]) <= session_timeout

(* The pending intent of the user's session, in memory or else in its file,  *)
(* when that session is not older than the timeout; None otherwise.          *)
LivePending(u) ==
    IF /\ StoredSession(u) # None
       /\ WellFormed(StoredSession(u))
       /\ Age(StoredSession(u)) <= session_timeout
       /\ "pending_info" \in DOMAIN StoredSession(u).data
    THEN StoredSession(u).data["pending_info"]
    ELSE None

(* C32: the prompt of the NLU call of a turn carries the pending intent      *)
(* stored for the user when a non-expired session with a pending intent      *)
(* exists at the start of the turn, and carries none otherwise.              *)
C32_PromptCarriesPending ==
    [][\A u \in Users :
        ( /\ last'.op = "analyze"
          /\ last'.user = u
          /\ last'.result # None )
        => last'.prompt = LivePending(u)]_vars

(* The prompt of a turn carried the pending intent of an earlier turn. *)
C32_Witness ==
    /\ last.op = "analyze"
    /\ last.prompt # None
    /\ last.prompt.intent = "faire_virement"
    /\ last.prompt.missing_params = <<"senderPhone", "amount">>

(* C33: clear_pending_info on a non-expired session that holds a pending     *)
(* intent deletes pending_info from the session in memory and writes that    *)
(* session to the file; user_id, created_at, last_activity, the other keys   *)
(* of data and the history stay.  On a non-expired session without a         *)
(* pending intent it changes nothing.  A second call right after changes     *)
(* nothing more, and a read of the pending intent then returns None.         *)
C33_ClearRemovesOnlyPending ==
    [][\A u \in Users :
        ( /\ last'.op = "clear_pending_info"
          /\ last'.user = u
          /\ LiveSession(u) # None )
        => LET before == LiveSession(u)
               again == clear_pending_info(sessions, files, u, now)'
           IN  /\ sessions'[u] # None
               /\ sessions'[u].user_id = before.user_id
               /\ sessions'[u].created_at = before.created_at
               /\ sessions'[u].last_activity = before.last_activity
               /\ sessions'[u].conversation_history = before.conversation_history
               /\ DOMAIN sessions'[u].data = DOMAIN before.data \ {"pending_info"}
               /\ \A k \in DOMAIN sessions'[u].data :
                     sessions'[u].data[k] = before.data[k]
               /\ IF "pending_info" \in DOMAIN before.data
                  THEN files'[u] = json_dump(sessions'[u])
                  ELSE files'[u] = files[u]
               /\ again.sessions = sessions'
               /\ again.files = files'
               /\ StoredPending(u)' = None]_vars

(* A pending intent has just been cleared from a session that keeps its      *)
(* history and whose last activity is earlier than the clear.                *)
C33_Witness ==
    /\ last.op = "clear_pending_info"
    /\ last.removed
    /\ sessions[last.user] # None
    /\ "pending_info" \notin DOMAIN sessions[last.user].data
    /\ Len(sessions[last.user].conversation_history) > 0
    /\ Age(sessions[last.user]) > 0
    /\ files[last.user] = json_dump(sessions[last.user])

(* C34: when execute_action returns success = false to the route of          *)
(* POST /voice/blockchain/execute, the response has status 400 and carries   *)
(* the error of the collaborator.                                            *)
C34_CollaboratorFailureIs400 ==
    ( /\ last.op = "execute_blockchain_action"
      /\ ~last.collaborator.raised
      /\ ~last.collaborator.ret.success )
    => /\ last.response.status = 400
       /\ last.response.detail = last.collaborator.ret.error

(* C35: for a successful NLU analysis, the is_complete that                  *)
(* extract_from_pipeline gives equals the is_complete that analyze_text      *)
(* computed, and is true only when the missing list and the list of          *)
(* validation errors are both empty.                                         *)
C35_CompletenessAgrees ==
    ( /\ last.op = "extract_from_pipeline"
      /\ last.nlu.success )
    => /\ last.extracted.is_complete = last.nlu.is_complete
       /\ last.extracted.is_complete
            => /\ last.extracted.missing_parameters = << >>
               /\ last.extracted.validation_errors = << >>

(* The age is written as a whole number: an int, a float without fraction,   *)
(* or a string of digits.                                                     *)
DenotesInteger(age, n) ==
    \/ age = PyInt(n)
    \/ age = PyFloat(10 * n)
    \/ /\ "chars" \in DOMAIN age
       /\ age.chars # << >>
       /\ \A i \in 1..Len(age.chars) : age.chars[i] \in Digits
       /\ DecimalValue(age.chars) = n

(* C36: validate_age never raises; it returns true for an age that denotes   *)
(* an integer from 18 to 120, and false for every int outside that range,    *)
(* every float with a fraction or that is not a number, every string with a  *)
(* character that is neither digit, sign nor blank, and None.                *)
C36_AgeInRangeOnly ==
    last.op = "validate_age"
    => LET age == last.age
       IN  /\ ~last.result.raised
           /\ (\E n \in 18..120 : DenotesInteger(age, n)) => last.result.ret
           /\ ("int" \in DOMAIN age /\ (age.int < 18 \/ age.int > 120))
                => ~last.result.ret
           /\ ("float_tenths" \in DOMAIN age /\ age.float_tenths % 10 # 0)
                => ~last.result.ret
           /\ "float_special" \in DOMAIN age => ~last.result.ret
           /\ ( /\ "chars" \in DOMAIN age
                /\ \E i \in 1..Len(age.chars) :
                      age.chars[i] \notin Digits \cup {"+", "-", " "} )
                => ~last.result.ret
           /\ age = None => ~last.result.ret

====
